---- MODULE Spec2Model ----
(***************************************************************************)
(* Model of CloudflareTranscribeService (src/src/services/transcribe.ts):  *)
(* the size gate, silence detection, the two-pass split planner, the       *)
(* segmenter with its fallbacks, chunk validation, and the concurrent      *)
(* per-chunk transcription with ordered aggregation and scratch cleanup.   *)
(*                                                                         *)
(* Texts are sequences of tokens: a token is either a whitespace character *)
(* (" " or "\n") or an atomic non-whitespace word.  Times are whole        *)
(* seconds.  Each action is one stretch of code between two awaits.        *)
(***************************************************************************)
EXTENDS Integers, Sequences, FiniteSets, TLC

\* ------------------------------------------------------------------ constants
MAX_FILE_SIZE == 5242880
MIN_CHUNK_SIZE == 1024
MAX_CHUNK_DURATION == 120
MIN_SPLIT_GAP == 30

\* ------------------------------------------------------------------ bounds
\* longest silence-point list the analyzer reports
MaxPoints == 3

\* longest silence-point list the planner is run on by itself
MaxPlanPoints == 5

\* most entries the input directory holds
MaxFiles == 2
\* names mkdtemp can draw for a scratch directory
MaxDirNames == 3

\* ------------------------------------------------------------------ inputs
\* sizes of the source file around the routing threshold
FileSizes == {MAX_FILE_SIZE - 1, MAX_FILE_SIZE, MAX_FILE_SIZE + 1}
\* candidate silence_end timestamps (seconds)
SilenceTimes == {10, 50, 125, 140, 250}
\* candidate silence_end timestamps for the planner run by itself
PlanTimes == {10, 30, 50, 120, 125, 140, 150, 155, 250}
\* byte sizes of the files the encoder writes
ChunkSizes == {500, 1023, 1024}
\* texts the transcription backend answers with
BackendTexts == {<<"A">>, <<"C">>, <<" ", "A">>}

\* the ascending lists over a set of timestamps, up to a length
AscendingLists(times, maxLen) ==
  {s \in UNION {[1..n -> times] : n \in 0..maxLen} :
     \A i \in 1..Len(s) : \A j \in 1..Len(s) : i < j => s[i] < s[j]}

\* silence_end lists of the source files the pipeline is run on
SilenceLists == AscendingLists(SilenceTimes, MaxPoints)

\* silence_end lists of the source files the planner is run on by itself
PlanLists == AscendingLists(PlanTimes, MaxPlanPoints)

\* entries of the input directory: name without extension, extension, kind
InputEntries == [stem : {"a", "b"}, ext : {"mp3", "mp4", "wav", "txt"}, isFile : BOOLEAN]
\* listings fs.readdir can return: no entry twice
InputListings ==
  {l \in UNION {[1..n -> InputEntries] : n \in 0..MaxFiles} :
     \A i \in 1..Len(l) : \A j \in 1..Len(l) : i # j => l[i] # l[j]}
\* texts transcriber.transcribe answers main() with
MainTexts == {<<"a", ".", " ", "b", ".">>, <<"a">>}
\* output directories main() starts with: earlier runs' split texts
ExistingOutputs ==
  UNION {[stems -> {<<"a", ".", "\n", "b", ".">>}] : stems \in SUBSET {"a", "b"}}

Whitespace == {" ", "\n"}
Terminators == {".", "!", "?"}
NoText == <<"<none>">>

\* names the encoder's pattern chunk_%03d.mp3 yields, by sequence number
ChunkNames ==
  <<"chunk_000.mp3", "chunk_001.mp3", "chunk_002.mp3", "chunk_003.mp3",
    "chunk_004.mp3", "chunk_005.mp3", "chunk_006.mp3", "chunk_007.mp3">>

ChunkName(i) == ChunkNames[i + 1]

NameNumber(name) == CHOOSE i \in 0..(Len(ChunkNames) - 1) : ChunkName(i) = name

\* ------------------------------------------------------------------ state
VARIABLES
  pc,             \* position of the transcribe() call
  route,          \* callee transcribe() chose: "none", "direct", "chunked"
  fileSize,       \* stats.size of the source file
  audio,          \* silence_end timestamps the analyzer finds in the source file
  tempDirExists,  \* the scratch directory exists on disk
  tempDir,        \* files of the scratch directory: name -> [size, content]
  silencePoints,  \* splitBySilence: result of detectSilence
  segmentTimes,   \* splitBySilence: the split plan
  allChunks,      \* splitBySilence: sorted directory listing
  validIdx,       \* validateChunks: position in the loop over chunks
  validChunks,    \* validateChunks: chunks kept so far
  statLog,        \* what fs.stat and fs.unlink answered for each chunk examined
  chunks,         \* transcribeLargeFile: chunk list returned by splitBySilence
  inflight,       \* indices of chunk transcriptions not yet settled
  completed,      \* outcomes of the settled chunk promises, in completion order
  submitted,      \* files handed to the transcription backend
  returned,       \* text transcribe() returned, NoText if none
  thrown,         \* error transcribe() threw, "none" if none
  analyzerCalls,  \* invocations of the silencedetect subprocess
  analyzerFailed, \* the silencedetect subprocess failed
  encoderCalls,   \* invocations of the segment subprocess
  encoderFailed,  \* the segment subprocess failed
  dirsCreated,    \* scratch directories created by mkdtemp
  \* main() of src/src/index.ts
  mainPc,         \* position of main()
  credentials,    \* CLOUDFLARE_ACCOUNT_ID and CLOUDFLARE_API_TOKEN are set
  dirents,        \* entries of the input directory
  outputs,        \* text files of the output directory: stem -> text
  audioFiles,     \* main: the entries kept by the filter
  fileIdx,        \* main: position in the loop over audioFiles
  fileText,       \* main: text, read or transcribed for the current file
  existedAt,      \* per file processed: its output file existed at fs.access
  transcribed,    \* positions of the files transcriber.transcribe was called for
  written,        \* positions of the files fs.writeFile has written the output of
  mainError,      \* error the catch of main logged, "none" if none
  \* two transcribeLargeFile calls in progress at once
  attempt,        \* per call: position, source, scratch directory, locals
  disk,           \* chunk files of the temporary directory: <<directory, name>> -> file
  scratchDirs,    \* scratch directories that exist
  touched         \* whose files each call has listed, examined, deleted or submitted

mainVars == <<mainPc, credentials, dirents, outputs, audioFiles, fileIdx, fileText,
              existedAt, transcribed, written, mainError>>

pairVars == <<attempt, disk, scratchDirs, touched>>

\* state outside a single transcribe() call
outsideVars == <<mainVars, pairVars>>

vars == <<pc, route, fileSize, audio, tempDirExists, tempDir, silencePoints, segmentTimes,
          allChunks, validIdx, validChunks, statLog, chunks, inflight, completed,
          submitted, returned, thrown, analyzerCalls, analyzerFailed,
          encoderCalls, encoderFailed, dirsCreated, outsideVars>>

splitVars == <<silencePoints, segmentTimes, allChunks, validIdx, validChunks, statLog>>
dispatchVars == <<chunks, inflight, completed, submitted>>
callVars == <<analyzerCalls, analyzerFailed, encoderCalls, encoderFailed, dirsCreated>>

NoFiles == [n \in {} |-> 0]

SourceFile == [size |-> fileSize, content |-> "source"]

\* ------------------------------------------------------------------ text helpers
RECURSIVE JoinTexts(_, _)
\* Array.prototype.join on an array of texts
JoinTexts(texts, sep) ==
  IF Len(texts) = 0 THEN <<>>
  ELSE IF Len(texts) = 1 THEN texts[1]
  ELSE texts[1] \o sep \o JoinTexts(Tail(texts), sep)

RECURSIVE TrimStart(_)
TrimStart(t) ==
  IF Len(t) > 0 /\ t[1] \in Whitespace THEN TrimStart(Tail(t)) ELSE t

RECURSIVE TrimEnd(_)
TrimEnd(t) ==
  IF Len(t) > 0 /\ t[Len(t)] \in Whitespace
  THEN TrimEnd(SubSeq(t, 1, Len(t) - 1)) ELSE t

\* String.prototype.trim
Trim(t) == TrimEnd(TrimStart(t))

\* String.prototype.includes
Contains(hay, needle) ==
  \E k \in 0..(Len(hay) - Len(needle)) :
    SubSeq(hay, k + 1, k + Len(needle)) = needle

\* the template literal `ERROR ${chunk}`
ErrorMarker(chunk) == <<"ERROR", " ", chunk>>

\* ------------------------------------------------------------------ initial state
NoOutputs == [stem \in {} |-> <<>>]

\* main() is not running
MainIdle ==
  /\ mainPc = "idle"
  /\ credentials = TRUE
  /\ dirents = <<>>
  /\ outputs = NoOutputs
  /\ audioFiles = <<>>
  /\ fileIdx = 0
  /\ fileText = NoText
  /\ existedAt = <<>>
  /\ transcribed = {}
  /\ written = {}
  /\ mainError = "none"

NoDisk == [path \in {} |-> 0]

\* no transcribeLargeFile call runs beside the one followed
PairIdle ==
  /\ attempt = <<>>
  /\ disk = NoDisk
  /\ scratchDirs = {}
  /\ touched = {}

Init ==
  /\ pc = "start"
  /\ route = "none"
  /\ fileSize \in FileSizes
  /\ audio \in SilenceLists
  /\ tempDirExists = FALSE
  /\ tempDir = NoFiles
  /\ silencePoints = <<>>
  /\ segmentTimes = <<>>
  /\ allChunks = <<>>
  /\ validIdx = 0
  /\ validChunks = <<>>
  /\ statLog = <<>>
  /\ chunks = <<>>
  /\ inflight = {}
  /\ completed = <<>>
  /\ submitted = {}
  /\ returned = NoText
  /\ thrown = "none"
  /\ analyzerCalls = 0
  /\ analyzerFailed = FALSE
  /\ encoderCalls = 0
  /\ encoderFailed = FALSE
  /\ dirsCreated = 0
  /\ MainIdle
  /\ PairIdle

\* ------------------------------------------------------------------ transcribe
\* variant: the threshold itself is sent to the chunking pipeline
RouteDirect_Strict(size) == size < MAX_FILE_SIZE

\* the size gate of transcribe()
RouteDirect(size) == size <= MAX_FILE_SIZE

\* transcribe(): stat the file and route it
Transcribe ==
  /\ pc = "start"
  /\ route' = IF RouteDirect(fileSize) THEN "direct" ELSE "chunked"
  /\ pc' = IF RouteDirect(fileSize) THEN "direct" ELSE "mkdtemp"
  /\ UNCHANGED <<fileSize, audio, outsideVars, tempDirExists, tempDir, returned, thrown>>
  /\ UNCHANGED <<splitVars, dispatchVars, callVars>>

\* transcribe(): fs.stat rejects
TranscribeStatFails ==
  /\ pc = "start"
  /\ pc' = "done"
  /\ thrown' = "stat"
  /\ UNCHANGED <<route, fileSize, audio, outsideVars, tempDirExists, tempDir, returned>>
  /\ UNCHANGED <<splitVars, dispatchVars, callVars>>

\* transcribeFile() on the source file itself
TranscribeFileDirect ==
  /\ pc = "direct"
  /\ pc' = "done"
  /\ submitted' = submitted \cup {[chunk |-> "source"] @@ SourceFile}
  /\ \/ \E text \in BackendTexts : returned' = text /\ thrown' = "none"
     \/ returned' = NoText /\ thrown' = "backend"
  /\ UNCHANGED <<route, fileSize, audio, outsideVars, tempDirExists, tempDir, chunks, inflight, completed>>
  /\ UNCHANGED <<splitVars, callVars>>

\* ------------------------------------------------------------------ split planner
RECURSIVE Pass1_Strict(_, _, _)
\* variant: a point exactly MAX_CHUNK_DURATION past lastSplit is not taken
Pass1_Strict(points, times, lastSplit) ==
  IF Len(points) = 0 THEN [times |-> times, lastSplit |-> lastSplit]
  ELSE IF Head(points) - lastSplit > MAX_CHUNK_DURATION
       THEN Pass1_Strict(Tail(points), Append(times, Head(points)), Head(points))
       ELSE Pass1_Strict(Tail(points), times, lastSplit)

RECURSIVE Pass1(_, _, _)
\* first loop of splitBySilence: points at least MAX_CHUNK_DURATION past lastSplit
Pass1(points, times, lastSplit) ==
  IF Len(points) = 0 THEN [times |-> times, lastSplit |-> lastSplit]
  ELSE IF Head(points) - lastSplit >= MAX_CHUNK_DURATION
       THEN Pass1(Tail(points), Append(times, Head(points)), Head(points))
       ELSE Pass1(Tail(points), times, lastSplit)

Includes(seq, x) == \E k \in 1..Len(seq) : seq[k] = x

RECURSIVE Pass2(_, _, _)
\* second loop of splitBySilence: remaining points at least 30 s past lastSplit
Pass2(points, times, lastSplit) ==
  IF Len(points) = 0 THEN [times |-> times, lastSplit |-> lastSplit]
  ELSE IF ~Includes(times, Head(points)) /\ Head(points) - lastSplit >= MIN_SPLIT_GAP
       THEN Pass2(Tail(points), Append(times, Head(points)), Head(points))
       ELSE Pass2(Tail(points), times, lastSplit)

\* variant: the second loop starts from its own cursor at time 0
PlanSegments_SecondCursor(points) ==
  Pass2(points, Pass1(points, <<>>, 0).times, 0).times

\* segmentTimes as splitBySilence computes it from the silence points
PlanSegments(points) ==
  LET first == Pass1(points, <<>>, 0)
  IN Pass2(points, first.times, first.lastSplit).times

\* variant: an empty plan is not checked for and goes to the encoder
AfterDetect_NoPlanCheck(points) ==
  IF Len(points) = 0 THEN "copy_nosilence" ELSE "encode"

\* where splitBySilence goes once detectSilence has answered
AfterDetect(points) ==
  IF Len(points) = 0 THEN "copy_nosilence"
  ELSE IF Len(PlanSegments(points)) = 0 THEN "copy_nosplit"
  ELSE "encode"

\* ------------------------------------------------------------------ transcribeLargeFile
\* fs.mkdtemp creates the scratch directory
Mkdtemp ==
  /\ pc = "mkdtemp"
  /\ pc' = "detect"
  /\ tempDirExists' = TRUE
  /\ dirsCreated' = dirsCreated + 1
  /\ UNCHANGED <<route, fileSize, audio, outsideVars, tempDir, returned, thrown>>
  /\ UNCHANGED <<analyzerCalls, analyzerFailed, encoderCalls, encoderFailed>>
  /\ UNCHANGED <<splitVars, dispatchVars>>

\* fs.mkdtemp rejects: nothing was created, the error leaves transcribe()
MkdtempFails ==
  /\ pc = "mkdtemp"
  /\ pc' = "done"
  /\ thrown' = "mkdtemp"
  /\ UNCHANGED <<route, fileSize, audio, outsideVars, tempDirExists, tempDir, returned>>
  /\ UNCHANGED <<splitVars, dispatchVars, callVars>>

\* detectSilence(): the analyzer answers and its silence_end values are
\* returned; splitBySilence then plans the split up to its next await
DetectSilence ==
  /\ pc = "detect"
  /\ analyzerCalls' = analyzerCalls + 1
  /\ analyzerFailed' = FALSE
  /\ silencePoints' = audio
  /\ segmentTimes' = PlanSegments(silencePoints')
  /\ pc' = AfterDetect(silencePoints')
  /\ UNCHANGED <<route, fileSize, audio, outsideVars, tempDirExists, tempDir, returned, thrown>>
  /\ UNCHANGED <<allChunks, validIdx, validChunks, statLog>>
  /\ UNCHANGED <<encoderCalls, encoderFailed, dirsCreated>>
  /\ UNCHANGED dispatchVars

\* variant: no catch block, the analyzer's error leaves splitBySilence
DetectSilenceFails_Throws ==
  /\ pc = "detect"
  /\ analyzerCalls' = analyzerCalls + 1
  /\ analyzerFailed' = TRUE
  /\ pc' = "finally"
  /\ thrown' = "analyzer"
  /\ UNCHANGED <<route, fileSize, audio, outsideVars, tempDirExists, tempDir, returned>>
  /\ UNCHANGED <<encoderCalls, encoderFailed, dirsCreated>>
  /\ UNCHANGED <<splitVars, dispatchVars>>

\* detectSilence(): execAsync rejects, the catch block returns []
DetectSilenceFails ==
  /\ pc = "detect"
  /\ analyzerCalls' = analyzerCalls + 1
  /\ analyzerFailed' = TRUE
  /\ silencePoints' = <<>>
  /\ segmentTimes' = PlanSegments(silencePoints')
  /\ pc' = AfterDetect(silencePoints')
  /\ UNCHANGED <<route, fileSize, audio, outsideVars, tempDirExists, tempDir, returned, thrown>>
  /\ UNCHANGED <<allChunks, validIdx, validChunks, statLog>>
  /\ UNCHANGED <<encoderCalls, encoderFailed, dirsCreated>>
  /\ UNCHANGED dispatchVars

CopySites == {"copy_nosilence", "copy_nosplit", "copy_invalid"}

\* fs.copyFile(filePath, tempDir/chunk_000.mp3); return ["chunk_000.mp3"]
FallbackCopy ==
  /\ pc \in CopySites
  /\ pc' = "dispatch"
  /\ tempDir' = [n \in DOMAIN tempDir \cup {ChunkName(0)} |->
                   IF n = ChunkName(0) THEN SourceFile ELSE tempDir[n]]
  /\ chunks' = <<ChunkName(0)>>
  /\ UNCHANGED <<route, fileSize, audio, outsideVars, tempDirExists, returned, thrown>>
  /\ UNCHANGED <<inflight, completed, submitted>>
  /\ UNCHANGED <<splitVars, callVars>>

\* fs.copyFile rejects: the error leaves splitBySilence
FallbackCopyFails ==
  /\ pc \in CopySites
  /\ pc' = "finally"
  /\ thrown' = "copy"
  /\ UNCHANGED <<route, fileSize, audio, outsideVars, tempDirExists, tempDir, returned>>
  /\ UNCHANGED <<splitVars, dispatchVars, callVars>>

\* files the segment muxer writes for a plan: one per segment
EncodedNames(times) == {ChunkName(i) : i \in 0..Len(times)}

\* execAsync(segmentCmd) succeeds
Encode ==
  /\ pc = "encode"
  /\ pc' = "readdir"
  /\ encoderCalls' = encoderCalls + 1
  /\ encoderFailed' = FALSE
  /\ \E sizes \in [EncodedNames(segmentTimes) -> ChunkSizes] :
       tempDir' = [n \in EncodedNames(segmentTimes) |->
                     [size |-> sizes[n], content |-> n]]
  /\ UNCHANGED <<route, fileSize, audio, outsideVars, tempDirExists, returned, thrown>>
  /\ UNCHANGED <<analyzerCalls, analyzerFailed, dirsCreated>>
  /\ UNCHANGED <<splitVars, dispatchVars>>

\* variant: the encoder's error is caught and the whole file is used instead
EncodeFails_Fallback ==
  /\ pc = "encode"
  /\ encoderCalls' = encoderCalls + 1
  /\ encoderFailed' = TRUE
  /\ pc' = "copy_invalid"
  /\ UNCHANGED <<route, fileSize, audio, outsideVars, tempDirExists, tempDir, returned, thrown>>
  /\ UNCHANGED <<analyzerCalls, analyzerFailed, dirsCreated>>
  /\ UNCHANGED <<splitVars, dispatchVars>>

\* execAsync(segmentCmd) rejects: nothing catches it in splitBySilence
EncodeFails ==
  /\ pc = "encode"
  /\ encoderCalls' = encoderCalls + 1
  /\ encoderFailed' = TRUE
  /\ pc' = "finally"
  /\ thrown' = "encoder"
  /\ UNCHANGED <<route, fileSize, audio, outsideVars, tempDirExists, tempDir, returned>>
  /\ UNCHANGED <<analyzerCalls, analyzerFailed, dirsCreated>>
  /\ UNCHANGED <<splitVars, dispatchVars>>

RECURSIVE SortNames(_)
\* files.filter(chunk_*.mp3).sort(): zero-padded names sort by number
SortNames(names) ==
  IF names = {} THEN <<>>
  ELSE LET first == CHOOSE n \in names :
                      \A m \in names : NameNumber(n) <= NameNumber(m)
       IN <<first>> \o SortNames(names \ {first})

\* fs.readdir(tempDir) and the sorted chunk listing
Readdir ==
  /\ pc = "readdir"
  /\ pc' = "validate"
  /\ allChunks' = SortNames(DOMAIN tempDir)
  /\ validIdx' = 1
  /\ validChunks' = <<>>
  /\ statLog' = <<>>
  /\ UNCHANGED <<route, fileSize, audio, outsideVars, tempDirExists, tempDir, returned, thrown>>
  /\ UNCHANGED <<silencePoints, segmentTimes>>
  /\ UNCHANGED <<dispatchVars, callVars>>

\* fs.readdir rejects
ReaddirFails ==
  /\ pc = "readdir"
  /\ pc' = "finally"
  /\ thrown' = "readdir"
  /\ UNCHANGED <<route, fileSize, audio, outsideVars, tempDirExists, tempDir, returned>>
  /\ UNCHANGED <<splitVars, dispatchVars, callVars>>

\* variant: a chunk of exactly the minimum size is rejected
IsValidSize_Strict(size) == size > MIN_CHUNK_SIZE

\* the size test of validateChunks
IsValidSize(size) == size >= MIN_CHUNK_SIZE

\* variant: the validated list is returned even when it is empty
ValidateChunk_NoFallback ==
  /\ pc = "validate"
  /\ validIdx <= Len(allChunks)
  /\ LET chunk == allChunks[validIdx]
         size == tempDir[chunk].size
     IN \E statOk \in BOOLEAN :
          \* fs.unlink is only called for a chunk stat found too small
          \E unlinkOk \in (IF statOk /\ ~IsValidSize(size) THEN BOOLEAN ELSE {TRUE}) :
            /\ validChunks' = IF statOk /\ IsValidSize(size)
                               THEN Append(validChunks, chunk) ELSE validChunks
            /\ tempDir' = IF statOk /\ ~IsValidSize(size) /\ unlinkOk
                           THEN [n \in DOMAIN tempDir \ {chunk} |-> tempDir[n]]
                           ELSE tempDir
            /\ statLog' = Append(statLog,
                             [chunk |-> chunk, size |-> size,
                              statOk |-> statOk, unlinkOk |-> unlinkOk])
  /\ validIdx' = validIdx + 1
  /\ IF validIdx < Len(allChunks)
     THEN pc' = "validate" /\ chunks' = chunks
     ELSE pc' = "dispatch" /\ chunks' = validChunks'
  /\ UNCHANGED <<route, fileSize, audio, outsideVars, tempDirExists, returned, thrown>>
  /\ UNCHANGED <<silencePoints, segmentTimes, allChunks>>
  /\ UNCHANGED <<inflight, completed, submitted, callVars>>

\* one iteration of the loop of validateChunks; after the last one
\* splitBySilence returns the kept chunks or falls back to the whole file
ValidateChunk ==
  /\ pc = "validate"
  /\ validIdx <= Len(allChunks)
  /\ LET chunk == allChunks[validIdx]
         size == tempDir[chunk].size
     IN \E statOk \in BOOLEAN :
          \* fs.unlink is only called for a chunk stat found too small
          \E unlinkOk \in (IF statOk /\ ~IsValidSize(size) THEN BOOLEAN ELSE {TRUE}) :
            /\ validChunks' = IF statOk /\ IsValidSize(size)
                               THEN Append(validChunks, chunk) ELSE validChunks
            /\ tempDir' = IF statOk /\ ~IsValidSize(size) /\ unlinkOk
                           THEN [n \in DOMAIN tempDir \ {chunk} |-> tempDir[n]]
                           ELSE tempDir
            /\ statLog' = Append(statLog,
                             [chunk |-> chunk, size |-> size,
                              statOk |-> statOk, unlinkOk |-> unlinkOk])
  /\ validIdx' = validIdx + 1
  /\ IF validIdx < Len(allChunks)
     THEN pc' = "validate" /\ chunks' = chunks
     ELSE IF Len(validChunks') = 0
          THEN pc' = "copy_invalid" /\ chunks' = chunks
          ELSE pc' = "dispatch" /\ chunks' = validChunks'
  /\ UNCHANGED <<route, fileSize, audio, outsideVars, tempDirExists, returned, thrown>>
  /\ UNCHANGED <<silencePoints, segmentTimes, allChunks>>
  /\ UNCHANGED <<inflight, completed, submitted, callVars>>

\* variant: only the first chunk is started, the rest wait for it
Dispatch_FirstOnly ==
  /\ pc = "dispatch"
  /\ pc' = "transcribing"
  /\ inflight' = {0}
  /\ submitted' = submitted \cup
                    {[chunk |-> chunks[k]] @@ tempDir[chunks[k]] : k \in 1..Len(chunks)}
  /\ completed' = <<>>
  /\ UNCHANGED <<route, fileSize, audio, outsideVars, tempDirExists, tempDir, chunks, returned, thrown>>
  /\ UNCHANGED <<splitVars, callVars>>

\* chunks.map(async ...): every chunk's transcribeFile is started
Dispatch ==
  /\ pc = "dispatch"
  /\ pc' = "transcribing"
  /\ inflight' = 0..(Len(chunks) - 1)
  /\ submitted' = submitted \cup
                    {[chunk |-> chunks[k]] @@ tempDir[chunks[k]] : k \in 1..Len(chunks)}
  /\ completed' = <<>>
  /\ UNCHANGED <<route, fileSize, audio, outsideVars, tempDirExists, tempDir, chunks, returned, thrown>>
  /\ UNCHANGED <<splitVars, callVars>>

\* variant: the marker does not embed the chunk's name
FailedOutcome_NoName(index, chunk) ==
  [index |-> index, chunk |-> chunk, text |-> <<"ERROR">>, success |-> FALSE]

\* variant: the chunk's name is rebuilt from the index instead of the list
FailedOutcome_NameFromIndex(index, chunk) ==
  [index |-> index, chunk |-> ChunkName(index),
   text |-> ErrorMarker(ChunkName(index)), success |-> FALSE]

\* the outcome the map callback returns when transcribeFile rejects
FailedOutcome(index, chunk) ==
  [index |-> index, chunk |-> chunk, text |-> ErrorMarker(chunk), success |-> FALSE]

\* variant: the map callback has no try/catch, so a rejected transcribeFile
\* rejects Promise.all and the error reaches the outer catch
ChunkSettles_Rejects(index) ==
  /\ pc = "transcribing"
  /\ index \in inflight
  /\ inflight' = inflight \ {index}
  /\ \/ /\ \E text \in BackendTexts :
             completed' = Append(completed,
               [index |-> index, chunk |-> chunks[index + 1],
                text |-> text, success |-> TRUE])
        /\ UNCHANGED <<pc, thrown>>
     \/ /\ pc' = "finally"
        /\ thrown' = "backend"
        /\ UNCHANGED completed
  /\ UNCHANGED <<route, fileSize, audio, outsideVars, tempDirExists, tempDir, chunks, submitted>>
  /\ UNCHANGED returned
  /\ UNCHANGED <<splitVars, callVars>>

\* one chunk's promise settles: transcribeFile resolved with a text or rejected
ChunkSettles(index) ==
  /\ pc = "transcribing"
  /\ index \in inflight
  /\ inflight' = inflight \ {index}
  /\ \/ \E text \in BackendTexts :
          completed' = Append(completed,
            [index |-> index, chunk |-> chunks[index + 1],
             text |-> text, success |-> TRUE])
     \/ completed' = Append(completed, FailedOutcome(index, chunks[index + 1]))
  /\ UNCHANGED <<pc, route, fileSize, audio, outsideVars, tempDirExists, tempDir, chunks, submitted>>
  /\ UNCHANGED <<returned, thrown>>
  /\ UNCHANGED <<splitVars, callVars>>

Range(seq) == {seq[k] : k \in 1..Len(seq)}

\* Promise.all: the results in the order of the promises, not of completion
PromiseAll(settled, n) ==
  [k \in 1..n |-> CHOOSE r \in Range(settled) : r.index = k - 1]

RECURSIVE InsertByIndex(_, _)
InsertByIndex(sorted, r) ==
  IF Len(sorted) = 0 THEN <<r>>
  ELSE IF r.index < Head(sorted).index THEN <<r>> \o sorted
  ELSE <<Head(sorted)>> \o InsertByIndex(Tail(sorted), r)

RECURSIVE SortByIndex(_)
\* Array.prototype.sort((a, b) => a.index - b.index), stable
SortByIndex(results) ==
  IF Len(results) = 0 THEN <<>>
  ELSE InsertByIndex(SortByIndex(SubSeq(results, 1, Len(results) - 1)),
                     results[Len(results)])

\* variant: results gathered as they complete and never sorted
SortedResults_CompletionOrder(settled, n) == settled

\* transcriptionResults after the in-place sort by index
SortedResults(settled, n) == SortByIndex(PromiseAll(settled, n))

Texts(results) == [k \in 1..Len(results) |-> results[k].text]

\* the failed results as the aggregation lists them
FailedResults(results) == SelectSeq(results, LAMBDA r : ~r.success)

\* variant: every result's text joined at its own position
AggregateText_Interleaved(results) == Trim(JoinTexts(Texts(results), <<"\n">>))

\* the text transcribeLargeFile builds from the results
AggregateText(results) ==
  LET successfulResults == SortByIndex(SelectSeq(results, LAMBDA r : r.success))
      fullText == JoinTexts(Texts(successfulResults), <<"\n">>)
      failedResults == FailedResults(results)
  IN Trim(IF Len(failedResults) > 0
          THEN fullText \o <<"\n">> \o JoinTexts(Texts(failedResults), <<"\n">>)
          ELSE fullText)

\* Promise.all resolves once every chunk has settled; the text is assembled
Join ==
  /\ pc = "transcribing"
  /\ inflight = {}
  /\ pc' = "finally"
  /\ returned' = AggregateText(SortedResults(completed, Len(chunks)))
  /\ UNCHANGED <<route, fileSize, audio, outsideVars, tempDirExists, tempDir, thrown>>
  /\ UNCHANGED <<splitVars, dispatchVars, callVars>>

\* variant: the directory is removed at the end of the try block only
Cleanup_OnlyOnSuccess ==
  /\ pc = "finally"
  /\ pc' = "done"
  /\ tempDirExists' = IF thrown = "none" THEN FALSE ELSE tempDirExists
  /\ tempDir' = IF thrown = "none" THEN NoFiles ELSE tempDir
  /\ UNCHANGED <<route, fileSize, audio, outsideVars, returned, thrown>>
  /\ UNCHANGED <<splitVars, dispatchVars, callVars>>

\* finally: fs.rm(tempDir, { recursive: true, force: true })
Cleanup ==
  /\ pc = "finally"
  /\ pc' = "done"
  /\ tempDirExists' = FALSE
  /\ tempDir' = NoFiles
  /\ UNCHANGED <<route, fileSize, audio, outsideVars, returned, thrown>>
  /\ UNCHANGED <<splitVars, dispatchVars, callVars>>

Next ==
  \/ Transcribe
  \/ TranscribeStatFails
  \/ TranscribeFileDirect
  \/ Mkdtemp
  \/ MkdtempFails
  \/ DetectSilence
  \/ DetectSilenceFails
  \/ FallbackCopy
  \/ FallbackCopyFails
  \/ Encode
  \/ EncodeFails
  \/ Readdir
  \/ ReaddirFails
  \/ ValidateChunk
  \/ Dispatch
  \/ \E index \in 0..(Len(ChunkNames) - 1) : ChunkSettles(index)
  \/ Join
  \/ Cleanup

Spec == Init /\ [][Next]_vars

\* ------------------------------------------------------------------ main
\* no transcribe() call is in progress
PipelineIdle ==
  /\ pc = "idle"
  /\ route = "none"
  /\ fileSize = 0
  /\ audio = <<>>
  /\ tempDirExists = FALSE
  /\ tempDir = NoFiles
  /\ silencePoints = <<>>
  /\ segmentTimes = <<>>
  /\ allChunks = <<>>
  /\ validIdx = 0
  /\ validChunks = <<>>
  /\ statLog = <<>>
  /\ chunks = <<>>
  /\ inflight = {}
  /\ completed = <<>>
  /\ submitted = {}
  /\ returned = NoText
  /\ thrown = "none"
  /\ analyzerCalls = 0
  /\ analyzerFailed = FALSE
  /\ encoderCalls = 0
  /\ encoderFailed = FALSE
  /\ dirsCreated = 0

pipelineVars ==
  <<pc, route, fileSize, audio, tempDirExists, tempDir, splitVars, dispatchVars,
    returned, thrown, callVars>>

RECURSIVE SkipWhitespace(_, _)
\* first position from i on that holds no whitespace
SkipWhitespace(t, i) ==
  IF i <= Len(t) /\ t[i] \in Whitespace THEN SkipWhitespace(t, i + 1) ELSE i

RECURSIVE SplitPieces(_, _, _)
\* text.split(/(?<=[.!?])\s+/): cut at each whitespace run that follows . ! or ?
SplitPieces(t, i, piece) ==
  IF i > Len(t) THEN <<piece>>
  ELSE IF t[i] \in Whitespace /\ i > 1 /\ t[i - 1] \in Terminators
       THEN <<piece>> \o SplitPieces(t, SkipWhitespace(t, i), <<>>)
       ELSE SplitPieces(t, i + 1, Append(piece, t[i]))

\* RegexSplitSentencesService.split
SplitSentences(t) ==
  LET sentences == SelectSeq(SplitPieces(t, 1, <<>>), LAMBDA p : Len(Trim(p)) > 0)
  IN JoinTexts([k \in 1..Len(sentences) |-> Trim(sentences[k])], <<"\n">>)

\* the filter of main(): files ending in .mp3, .mp4 or .wav
IsAudioFile(dirent) == dirent.isFile /\ dirent.ext \in {"mp3", "mp4", "wav"}

MainInit ==
  /\ PipelineIdle
  /\ mainPc = "start"
  /\ credentials \in BOOLEAN
  /\ dirents \in InputListings
  /\ outputs \in ExistingOutputs
  /\ audioFiles = <<>>
  /\ fileIdx = 0
  /\ fileText = NoText
  /\ existedAt = <<>>
  /\ transcribed = {}
  /\ written = {}
  /\ mainError = "none"
  /\ PairIdle

\* main(): the credentials check; process.exit(1) without them
MainStart ==
  /\ mainPc = "start"
  /\ mainPc' = IF credentials THEN "list" ELSE "exit"
  /\ UNCHANGED <<credentials, dirents, outputs, audioFiles, fileIdx, fileText>>
  /\ UNCHANGED <<existedAt, transcribed, written, mainError>>
  /\ UNCHANGED <<pipelineVars, pairVars>>

\* fs.readdir(INPUT_DIR) and the filter; nothing to do without audio files
MainListInput ==
  /\ mainPc = "list"
  /\ audioFiles' = SelectSeq(dirents, IsAudioFile)
  /\ IF Len(audioFiles') = 0
     THEN mainPc' = "done" /\ fileIdx' = fileIdx
     ELSE mainPc' = "access" /\ fileIdx' = 1
  /\ UNCHANGED <<credentials, dirents, outputs, fileText>>
  /\ UNCHANGED <<existedAt, transcribed, written, mainError>>
  /\ UNCHANGED <<pipelineVars, pairVars>>

\* fs.readdir rejects: the catch of main logs it
MainListFails ==
  /\ mainPc = "list"
  /\ mainPc' = "done"
  /\ mainError' = "readdir"
  /\ UNCHANGED <<credentials, dirents, outputs, audioFiles, fileIdx, fileText>>
  /\ UNCHANGED <<existedAt, transcribed, written>>
  /\ UNCHANGED <<pipelineVars, pairVars>>

\* output file of an entry: same relative path, extension .txt
OutputStem(dirent) == dirent.stem

\* the inner try of the loop: fs.access and fs.readFile of the output file;
\* its catch, taken when either rejects, goes on to transcribe
MainAccess ==
  /\ mainPc = "access"
  /\ LET stem == OutputStem(audioFiles[fileIdx])
         exists == stem \in DOMAIN outputs
     IN /\ existedAt' = Append(existedAt, exists)
        /\ \/ /\ exists
              /\ fileText' = outputs[stem]
              /\ mainPc' = "write"
           \/ /\ ~exists
              /\ fileText' = fileText
              /\ mainPc' = "transcribe"
           \/ /\ exists   \* fs.readFile rejects
              /\ fileText' = fileText
              /\ mainPc' = "transcribe"
  /\ UNCHANGED <<credentials, dirents, outputs, audioFiles, fileIdx>>
  /\ UNCHANGED <<transcribed, written, mainError>>
  /\ UNCHANGED <<pipelineVars, pairVars>>

\* fs.mkdir of the output directory rejects: the catch of main logs it
MainMkdirFails ==
  /\ mainPc = "access"
  /\ mainPc' = "done"
  /\ mainError' = "mkdir"
  /\ UNCHANGED <<credentials, dirents, outputs, audioFiles, fileIdx, fileText>>
  /\ UNCHANGED <<existedAt, transcribed, written>>
  /\ UNCHANGED <<pipelineVars, pairVars>>

\* text = await transcriber.transcribe(fullInputPath) returns a text
MainTranscribe ==
  /\ mainPc = "transcribe"
  /\ mainPc' = "write"
  /\ transcribed' = transcribed \cup {fileIdx}
  /\ \E answer \in MainTexts : fileText' = answer
  /\ UNCHANGED <<credentials, dirents, outputs, audioFiles, fileIdx>>
  /\ UNCHANGED <<existedAt, written, mainError>>
  /\ UNCHANGED <<pipelineVars, pairVars>>

\* transcriber.transcribe throws: the catch around the loop logs it
MainTranscribeThrows ==
  /\ mainPc = "transcribe"
  /\ mainPc' = "done"
  /\ transcribed' = transcribed \cup {fileIdx}
  /\ mainError' = "transcribe"
  /\ UNCHANGED <<credentials, dirents, outputs, audioFiles, fileIdx, fileText>>
  /\ UNCHANGED <<existedAt, written>>
  /\ UNCHANGED <<pipelineVars, pairVars>>

\* splitter.split(text), fs.writeFile, and on to the next file
MainWrite ==
  /\ mainPc = "write"
  /\ LET stem == OutputStem(audioFiles[fileIdx])
     IN outputs' = [o \in DOMAIN outputs \cup {stem} |->
                      IF o = stem THEN SplitSentences(fileText) ELSE outputs[o]]
  /\ written' = written \cup {fileIdx}
  /\ IF fileIdx < Len(audioFiles)
     THEN mainPc' = "access" /\ fileIdx' = fileIdx + 1
     ELSE mainPc' = "done" /\ fileIdx' = fileIdx
  /\ UNCHANGED <<credentials, dirents, audioFiles, fileText>>
  /\ UNCHANGED <<existedAt, transcribed, mainError>>
  /\ UNCHANGED <<pipelineVars, pairVars>>

\* fs.writeFile rejects: the catch of main logs it
MainWriteFails ==
  /\ mainPc = "write"
  /\ mainPc' = "done"
  /\ mainError' = "write"
  /\ UNCHANGED <<credentials, dirents, outputs, audioFiles, fileIdx, fileText>>
  /\ UNCHANGED <<existedAt, transcribed, written>>
  /\ UNCHANGED <<pipelineVars, pairVars>>

MainNext ==
  \/ MainStart
  \/ MainListInput
  \/ MainListFails
  \/ MainAccess
  \/ MainMkdirFails
  \/ MainTranscribe
  \/ MainTranscribeThrows
  \/ MainWrite
  \/ MainWriteFails

MainSpec == MainInit /\ [][MainNext]_vars

\* ------------------------------------------------------------------ two attempts at once
Attempts == {1, 2}
\* audio-chunks-XXXXXX directories mkdtemp can create
ScratchNames == 1..MaxDirNames
\* source files: sizes of the chunks the encoder cuts each one into
PairSources == {"x", "y"}
SourceChunkSizes == [x |-> <<1024, 500>>, y |-> <<500>>]
\* what the backend hears in a file: part 0 is the whole source
PartWords == [x |-> <<"x0", "x1", "x2">>, y |-> <<"y0", "y1">>]
PartText(file) == <<PartWords[file.source][file.part + 1]>>

\* files of one scratch directory
FilesIn(dir) == {path \in DOMAIN disk : path[1] = dir}

PairInit ==
  /\ PipelineIdle
  /\ MainIdle
  /\ attempt \in [Attempts ->
       [pc : {"mkdtemp"}, source : PairSources, dir : {0}, allChunks : {<<>>},
        validIdx : {0}, chunks : {<<>>}, pending : {{}}, settled : {<<>>},
        returned : {NoText}, thrown : {"none"}]]
  /\ disk = NoDisk
  /\ scratchDirs = {}
  /\ touched = {}

Touch(a, paths) == touched \cup {[by |-> a, producer |-> disk[path].by] : path \in paths}

\* fs.mkdtemp always creates the one directory of this name
AttemptMkdtemp_SharedName(a) ==
  /\ attempt[a].pc = "mkdtemp"
  /\ attempt' = [attempt EXCEPT ![a].pc = "split", ![a].dir = 1]
  /\ scratchDirs' = scratchDirs \cup {1}
  /\ UNCHANGED <<disk, touched>>
  /\ UNCHANGED <<pipelineVars, mainVars>>

\* fs.mkdtemp(path.join(os.tmpdir(), "audio-chunks-")): a directory that did not exist
AttemptMkdtemp(a) ==
  /\ attempt[a].pc = "mkdtemp"
  /\ \E dir \in ScratchNames \ scratchDirs :
       /\ attempt' = [attempt EXCEPT ![a].pc = "split", ![a].dir = dir]
       /\ scratchDirs' = scratchDirs \cup {dir}
  /\ UNCHANGED <<disk, touched>>
  /\ UNCHANGED <<pipelineVars, mainVars>>

\* the encoder writes chunk_%03d.mp3 into this call's tempDir; it fails, and
\* the call throws, when the directory is gone
AttemptEncode(a) ==
  /\ attempt[a].pc = "split"
  /\ LET dir == attempt[a].dir
         sizes == SourceChunkSizes[attempt[a].source]
         written_ == {<<dir, ChunkName(k - 1)>> : k \in 1..Len(sizes)}
     IN IF dir \in scratchDirs
        THEN /\ disk' = [path \in DOMAIN disk \cup written_ |->
                           IF path \in written_
                           THEN [by |-> a, source |-> attempt[a].source,
                                 part |-> NameNumber(path[2]) + 1,
                                 size |-> sizes[NameNumber(path[2]) + 1]]
                           ELSE disk[path]]
             /\ attempt' = [attempt EXCEPT ![a].pc = "readdir"]
        ELSE /\ disk' = disk
             /\ attempt' = [attempt EXCEPT ![a].pc = "finally", ![a].thrown = "encoder"]
  /\ UNCHANGED <<scratchDirs, touched>>
  /\ UNCHANGED <<pipelineVars, mainVars>>

\* fs.readdir(tempDir), the chunk_ filter and the sort
AttemptReaddir(a) ==
  /\ attempt[a].pc = "readdir"
  /\ LET listed == FilesIn(attempt[a].dir)
     IN /\ touched' = Touch(a, listed)
        /\ IF listed = {}
           THEN attempt' = [attempt EXCEPT ![a].pc = "copy"]
           ELSE attempt' = [attempt EXCEPT ![a].pc = "validate", ![a].validIdx = 1,
                              ![a].allChunks = SortNames({path[2] : path \in listed})]
  /\ UNCHANGED <<disk, scratchDirs>>
  /\ UNCHANGED <<pipelineVars, mainVars>>

\* one turn of the loop of validateChunks: fs.stat, then keep or fs.unlink;
\* a chunk that is gone is skipped by the catch
AttemptValidateChunk(a) ==
  /\ attempt[a].pc = "validate"
  /\ LET chunk == attempt[a].allChunks[attempt[a].validIdx]
         path == <<attempt[a].dir, chunk>>
         found == path \in DOMAIN disk
         keep == found /\ IsValidSize(disk[path].size)
         kept == IF keep THEN Append(attempt[a].chunks, chunk) ELSE attempt[a].chunks
         more == attempt[a].validIdx < Len(attempt[a].allChunks)
     IN /\ touched' = IF found THEN Touch(a, {path}) ELSE touched
        /\ disk' = IF found /\ ~keep
                   THEN [other \in DOMAIN disk \ {path} |-> disk[other]]
                   ELSE disk
        /\ attempt' = [attempt EXCEPT
             ![a].chunks = kept,
             ![a].validIdx = @ + 1,
             ![a].pending = IF ~more /\ Len(kept) > 0 THEN 1..Len(kept) ELSE {},
             ![a].pc = IF more THEN "validate"
                       ELSE IF Len(kept) = 0 THEN "copy" ELSE "transcribing"]
  /\ UNCHANGED scratchDirs
  /\ UNCHANGED <<pipelineVars, mainVars>>

\* no valid chunk: fs.copyFile(filePath, chunk_000.mp3); it fails, and
\* the call throws, when the directory is gone
AttemptFallbackCopy(a) ==
  /\ attempt[a].pc = "copy"
  /\ LET path == <<attempt[a].dir, ChunkName(0)>>
     IN IF attempt[a].dir \in scratchDirs
        THEN /\ disk' = [other \in DOMAIN disk \cup {path} |->
                           IF other = path
                           THEN [by |-> a, source |-> attempt[a].source, part |-> 0,
                                 size |-> MAX_FILE_SIZE + 1]
                           ELSE disk[other]]
             /\ attempt' = [attempt EXCEPT ![a].pc = "transcribing",
                              ![a].chunks = <<ChunkName(0)>>, ![a].pending = {1}]
        ELSE /\ disk' = disk
             /\ attempt' = [attempt EXCEPT ![a].pc = "finally", ![a].thrown = "copy"]
  /\ UNCHANGED <<scratchDirs, touched>>
  /\ UNCHANGED <<pipelineVars, mainVars>>

\* one chunk promise settles: transcribeFile reads the chunk file and the
\* backend answers with what it hears; a file that is gone gives the error marker
AttemptChunkSettles(a, k) ==
  /\ attempt[a].pc = "transcribing"
  /\ k \in attempt[a].pending
  /\ LET chunk == attempt[a].chunks[k]
         path == <<attempt[a].dir, chunk>>
         found == path \in DOMAIN disk
         outcome == IF found
                    THEN [index |-> k - 1, chunk |-> chunk,
                          text |-> PartText(disk[path]), success |-> TRUE]
                    ELSE FailedOutcome(k - 1, chunk)
     IN /\ touched' = IF found THEN Touch(a, {path}) ELSE touched
        /\ attempt' = [attempt EXCEPT ![a].pending = @ \ {k},
                                      ![a].settled = Append(@, outcome)]
  /\ UNCHANGED <<disk, scratchDirs>>
  /\ UNCHANGED <<pipelineVars, mainVars>>

\* Promise.all resolves: sort, aggregate, return
AttemptJoin(a) ==
  /\ attempt[a].pc = "transcribing"
  /\ attempt[a].pending = {}
  /\ attempt' = [attempt EXCEPT ![a].pc = "finally",
       ![a].returned = AggregateText(SortedResults(attempt[a].settled,
                                                   Len(attempt[a].chunks)))]
  /\ UNCHANGED <<disk, scratchDirs, touched>>
  /\ UNCHANGED <<pipelineVars, mainVars>>

\* finally: fs.rm(tempDir, { recursive: true, force: true })
AttemptCleanup(a) ==
  /\ attempt[a].pc = "finally"
  /\ disk' = [path \in DOMAIN disk \ FilesIn(attempt[a].dir) |-> disk[path]]
  /\ scratchDirs' = scratchDirs \ {attempt[a].dir}
  /\ attempt' = [attempt EXCEPT ![a].pc = "done"]
  /\ UNCHANGED touched
  /\ UNCHANGED <<pipelineVars, mainVars>>

PairNext ==
  \E a \in Attempts :
    \/ AttemptMkdtemp(a)
    \/ AttemptEncode(a)
    \/ AttemptReaddir(a)
    \/ AttemptValidateChunk(a)
    \/ AttemptFallbackCopy(a)
    \/ \E k \in 1..2 : AttemptChunkSettles(a, k)
    \/ AttemptJoin(a)
    \/ AttemptCleanup(a)

PairSpec == PairInit /\ [][PairNext]_vars

\* ------------------------------------------------------------------ the planner by itself
\* transcribeLargeFile about to call splitBySilence on a large source file
\* with any of the longer silence lists
PlanInit ==
  /\ pc = "detect"
  /\ route = "chunked"
  /\ fileSize = MAX_FILE_SIZE + 1
  /\ audio \in PlanLists
  /\ tempDirExists = TRUE
  /\ tempDir = NoFiles
  /\ silencePoints = <<>>
  /\ segmentTimes = <<>>
  /\ allChunks = <<>>
  /\ validIdx = 0
  /\ validChunks = <<>>
  /\ statLog = <<>>
  /\ chunks = <<>>
  /\ inflight = {}
  /\ completed = <<>>
  /\ submitted = {}
  /\ returned = NoText
  /\ thrown = "none"
  /\ analyzerCalls = 0
  /\ analyzerFailed = FALSE
  /\ encoderCalls = 0
  /\ encoderFailed = FALSE
  /\ dirsCreated = 1
  /\ MainIdle
  /\ PairIdle

PlanNext == DetectSilence

PlanSpec == PlanInit /\ [][PlanNext]_vars

\* ------------------------------------------------------------------ properties
\* the chunk transcriptions have been started
Dispatched == route = "chunked" /\ pc \in {"transcribing", "finally", "done"} /\ Len(chunks) > 0

\* Promise.all has resolved and the text has been assembled
Joined == Dispatched /\ pc \in {"finally", "done"}

\* the outcome recorded for the chunk at a position of the chunk list
OutcomeAt(index) == CHOOSE r \in Range(completed) : r.index = index

\* C1 as stated: once the chunks are dispatched the call never throws, every
\* chunk gets an outcome, and the returned text contains every successful
\* chunk's text and every failed chunk's marker ERROR <chunk file name>.
C1_EveryTextContained ==
  /\ Dispatched => thrown = "none"
  /\ Joined =>
       /\ returned # NoText
       /\ Len(completed) = Len(chunks)
       /\ \A r \in Range(completed) :
            Contains(returned, IF r.success THEN r.text ELSE ErrorMarker(r.chunk))

\* C1 amended: once the chunks are dispatched the call never throws, every
\* chunk gets an outcome, and the returned text contains every failed chunk's
\* marker ERROR <chunk file name> and every successful chunk's text apart
\* from whitespace at the text's own ends, which the final trim may remove.
C1_FailuresIsolated ==
  /\ Dispatched => thrown = "none"
  /\ Joined =>
       /\ returned # NoText
       /\ Len(completed) = Len(chunks)
       /\ \A r \in Range(completed) :
            Contains(returned, IF r.success THEN Trim(r.text) ELSE ErrorMarker(r.chunk))

C1_Witness ==
  /\ pc = "done" /\ Joined /\ Len(chunks) = 3
  /\ \A r \in Range(completed) : ~r.success

RECURSIVE TextsFrom(_, _)
\* texts of the chunks index..n-1 whose outcome has the given success flag
TextsFrom(index, ok) ==
  IF index >= Len(chunks) THEN <<>>
  ELSE (IF OutcomeAt(index).success = ok
        THEN << IF ok THEN OutcomeAt(index).text ELSE ErrorMarker(chunks[index + 1]) >>
        ELSE <<>>) \o TextsFrom(index + 1, ok)

ExpectedText ==
  LET good == JoinTexts(TextsFrom(0, TRUE), <<"\n">>)
      bad == TextsFrom(0, FALSE)
  IN Trim(IF Len(bad) > 0 THEN good \o <<"\n">> \o JoinTexts(bad, <<"\n">>) ELSE good)

\* 3 chunks, chunk 1 fails, chunks 0 and 2 answer "A" and "C"
C2_Example ==
  /\ Joined /\ Len(chunks) = 3
  /\ OutcomeAt(0).success /\ OutcomeAt(0).text = <<"A">>
  /\ ~OutcomeAt(1).success
  /\ OutcomeAt(2).success /\ OutcomeAt(2).text = <<"C">>

\* C2: the returned text is the successful chunks' texts joined by newline in
\* ascending index order, then (if any chunk failed) a newline and the failed
\* chunks' markers joined by newline in ascending index order, all trimmed;
\* with chunks 0, 2 answering A, C and chunk 1 failing it is A\nC\nERROR <chunk1>.
C2_SuccessesThenFailures ==
  Joined =>
    /\ returned = ExpectedText
    /\ C2_Example =>
         returned = <<"A", "\n", "C", "\n", "ERROR", " ", chunks[2]>>

C2_Witness == pc = "done" /\ C2_Example

CompletionOrders(n) ==
  {p \in [1..n -> 1..n] : \A i \in 1..n : \A j \in 1..n : i # j => p[i] # p[j]}

\* the text the call builds when the same outcomes settle in the order p
TextForOrder(p) ==
  AggregateText(SortedResults([k \in 1..Len(completed) |-> completed[p[k]]], Len(chunks)))

\* C3: for the same chunks and the same per-chunk results, every completion
\* order of the chunk transcriptions gives the text that was returned.
C3_OrderIndependent ==
  Joined => \A p \in CompletionOrders(Len(completed)) : TextForOrder(p) = returned

C3_Witness ==
  /\ pc = "done" /\ Joined /\ Len(completed) = 3
  /\ completed[1].index = 2 /\ ~completed[1].success
  /\ completed[2].index = 1 /\ ~completed[2].success
  /\ completed[3].success

\* C4: once the scratch directory has been created it is gone when the call
\* finishes, whether it returned a text or threw.
C4_ScratchRemoved ==
  (pc = "done" /\ dirsCreated > 0) => (~tempDirExists /\ tempDir = NoFiles)

C4_Witness ==
  pc = "done" /\ dirsCreated = 1 /\ thrown = "copy" /\ encoderCalls = 1

\* C5: when every dispatched chunk has settled there is exactly one outcome per
\* chunk of the list splitBySilence returned: the indices are exactly 0..n-1,
\* each once, and each outcome carries the name of the chunk at its index.
C5_OneOutcomePerChunk ==
  (Dispatched /\ inflight = {}) =>
    /\ Len(completed) = Len(chunks)
    /\ {completed[j].index : j \in 1..Len(completed)} = 0..(Len(chunks) - 1)
    /\ \A i \in 0..(Len(chunks) - 1) :
         Cardinality({j \in 1..Len(completed) : completed[j].index = i}) = 1
    /\ \A j \in 1..Len(completed) :
         completed[j].chunk = chunks[completed[j].index + 1]

C5_Witness ==
  /\ pc = "transcribing" /\ inflight = {}
  /\ chunks = <<ChunkName(0), ChunkName(2)>>
  /\ ~OutcomeAt(1).success /\ OutcomeAt(0).success

\* C6: a file goes to direct transcription iff its size is at most 5MB and to
\* the chunking pipeline iff it is larger; the direct route creates no scratch
\* directory and runs neither the analyzer nor the encoder.
C6_SizeGate ==
  (pc # "start" /\ thrown # "stat") =>
    /\ route = "direct" <=> fileSize <= 5 * 1024 * 1024
    /\ route = "chunked" <=> fileSize > 5 * 1024 * 1024
    /\ route = "direct" =>
         /\ dirsCreated = 0 /\ ~tempDirExists
         /\ analyzerCalls = 0 /\ encoderCalls = 0

C6_Witness ==
  pc = "done" /\ route = "direct" /\ fileSize = 5 * 1024 * 1024 /\ returned # NoText

\* splitBySilence has computed its plan
Planned == route = "chunked" /\ pc \notin {"start", "mkdtemp", "detect"}

\* seconds of source audio between a split point and the one before it
ChunkSpan(times, k) == times[k] - (IF k = 1 THEN 0 ELSE times[k - 1])

\* C7: when the first pass accepts at least one point, no chunk delimited by
\* consecutive split points of the plan (from time 0) spans more than
\* maxChunkDuration seconds.
C7_NoChunkOverMaxDuration ==
  (Planned /\ Len(Pass1(silencePoints, <<>>, 0).times) > 0) =>
    \A k \in 1..Len(segmentTimes) :
      ChunkSpan(segmentTimes, k) <= MAX_CHUNK_DURATION

\* the one chunk every fallback yields: the source file under chunk_000.mp3
WholeFileChunk == [chunk |-> ChunkName(0)] @@ SourceFile

\* C8: when the analyzer fails, detectSilence returns [], the encoder is not
\* run and nothing but a failing fallback copy makes the call throw; with the
\* copy done the only chunk is a copy of the source and it is dispatched.
C8_AnalyzerFailureDegrades ==
  analyzerFailed =>
    /\ silencePoints = <<>> /\ segmentTimes = <<>>
    /\ encoderCalls = 0
    /\ thrown \in {"none", "copy"}
    /\ (pc = "done" /\ thrown = "none") =>
         /\ chunks = <<ChunkName(0)>>
         /\ submitted = {WholeFileChunk}
         /\ returned # NoText

C8_Witness ==
  analyzerFailed /\ pc = "done" /\ thrown = "none" /\ ~OutcomeAt(0).success

\* C9: when the plan is empty the encoder is never run, and the chunk list
\* splitBySilence returns is the single chunk chunk_000.mp3, at index 0, whose
\* content is the source file's.
C9_EmptyPlanSingleChunk ==
  (Planned /\ Len(segmentTimes) = 0) =>
    /\ encoderCalls = 0
    /\ pc = "dispatch" =>
         /\ chunks = <<ChunkName(0)>>
         /\ tempDir[ChunkName(0)] = SourceFile
    /\ \A r \in Range(completed) : r.index = 0 /\ r.chunk = ChunkName(0)
    /\ submitted \subseteq {WholeFileChunk}

C9_Witness ==
  /\ pc = "transcribing" /\ Len(silencePoints) > 0 /\ Len(segmentTimes) = 0
  /\ submitted = {WholeFileChunk}

\* C10: when the encoder fails, its error is the one the call throws, no chunk
\* list is returned and no chunk is dispatched, no fallback copy is made, and
\* the scratch directory is removed before the call finishes.
C10_EncoderFailureFatal ==
  encoderFailed =>
    /\ thrown = "encoder" /\ returned = NoText
    /\ pc \in {"finally", "done"}
    /\ chunks = <<>> /\ submitted = {} /\ completed = <<>>
    /\ ChunkName(0) \in DOMAIN tempDir => tempDir[ChunkName(0)] # SourceFile
    /\ pc = "done" => ~tempDirExists

C10_Witness == encoderFailed /\ pc = "done" /\ thrown = "encoder"

\* validateChunks has examined every chunk the encoder left in the directory
Validated ==
  /\ Len(allChunks) > 0 /\ validIdx > Len(allChunks)
  /\ pc = "copy_invalid" \/ (pc = "dispatch" /\ Len(validChunks) > 0)

LoggedChunks(log) == [k \in 1..Len(log) |-> log[k].chunk]

\* C15: validateChunks examines every chunk once in input order and returns
\* exactly those whose stat succeeded with at least 1024 bytes, in that order;
\* a chunk found below 1024 bytes is dropped and, unless the deletion fails,
\* deleted from the scratch directory; a failing stat or deletion drops the
\* chunk, leaves its file, throws nothing and leaves the later chunks alone.
C15_ValidateChunks ==
  Validated =>
    /\ thrown = "none"
    /\ LoggedChunks(statLog) = allChunks
    /\ validChunks =
         LoggedChunks(SelectSeq(statLog, LAMBDA e : e.statOk /\ e.size >= 1024))
    /\ \A k \in 1..Len(statLog) :
         LET e == statLog[k]
         IN /\ (e.statOk /\ e.size < 1024 /\ e.unlinkOk)
                 => e.chunk \notin DOMAIN tempDir
            /\ (~e.statOk \/ e.size >= 1024 \/ ~e.unlinkOk)
                 => (e.chunk \in DOMAIN tempDir /\ tempDir[e.chunk].size = e.size)

C15_Witness ==
  /\ Validated /\ Len(statLog) = 3
  /\ statLog[1].statOk /\ statLog[1].size = 500 /\ statLog[1].unlinkOk
  /\ ~statLog[2].statOk
  /\ statLog[3].statOk /\ statLog[3].size = 1024
  /\ validChunks = <<ChunkName(2)>>

\* C16: the chunk list splitBySilence returns is never empty; when validation
\* dropped every chunk the encoder produced, it is the single chunk
\* chunk_000.mp3 holding the source file itself, and once the chunks are
\* dispatched at least one file has gone to the backend.
C16_NeverEmptyChunkList ==
  /\ pc = "dispatch" =>
       /\ Len(chunks) >= 1
       /\ \A k \in 1..Len(chunks) : chunks[k] \in DOMAIN tempDir
       /\ (encoderCalls = 1 /\ Len(validChunks) = 0) =>
            /\ chunks = <<ChunkName(0)>>
            /\ tempDir[ChunkName(0)] = SourceFile
  /\ (route = "chunked" /\ pc = "transcribing") => Cardinality(submitted) >= 1
  /\ (route = "chunked" /\ returned # NoText) => Len(completed) >= 1

C16_Witness ==
  /\ pc = "transcribing" /\ encoderCalls = 1 /\ Len(validChunks) = 0
  /\ Len(statLog) = 3 /\ submitted = {[chunk |-> ChunkName(0)] @@ SourceFile}

CompletedIndices == {completed[j].index : j \in 1..Len(completed)}

\* C17: while the chunks are being transcribed every chunk of the list has been
\* started, each being either still in flight or settled; a settled failure
\* leaves the others in flight; and the text is only assembled once no chunk
\* is in flight any more.
C17_AllStartedThenJoined ==
  /\ (route = "chunked" /\ pc = "transcribing") =>
       /\ inflight \cup CompletedIndices = 0..(Len(chunks) - 1)
       /\ inflight \cap CompletedIndices = {}
       /\ Cardinality(submitted) = Len(chunks)
  /\ (route = "chunked" /\ returned # NoText) =>
       /\ inflight = {}
       /\ CompletedIndices = 0..(Len(chunks) - 1)

C17_Witness ==
  /\ pc = "transcribing" /\ Len(chunks) = 3
  /\ Len(completed) = 1 /\ ~completed[1].success /\ completed[1].index = 0
  /\ inflight = {1, 2}

\* C19: while any chunk transcription is in flight the scratch directory and
\* the chunk files of the list still exist: cleanup has not run.
C19_NoCleanupWhileInFlight ==
  inflight # {} =>
    /\ tempDirExists
    /\ pc = "transcribing"
    /\ \A k \in 1..Len(chunks) : chunks[k] \in DOMAIN tempDir

C19_Witness ==
  /\ Len(chunks) = 3 /\ inflight = {0} /\ Len(completed) = 2
  /\ ~completed[1].success /\ ~completed[2].success /\ tempDirExists

\* C20: every file the chunking pipeline hands to the transcription backend
\* is at most 5MB, the encoder's chunks being at most 5MB.
C20_SubmittedWithinLimit ==
  route = "chunked" => \A f \in submitted : f.size <= 5 * 1024 * 1024

\* C13: the plan is strictly increasing, made of silence points only, free of
\* duplicates, and every gap between consecutive splits, the one from time 0
\* to the first split included, is at least 30 seconds.
C13_PlanIncreasingWithMinGap ==
  Planned =>
    /\ \A k \in 1..Len(segmentTimes) : Includes(silencePoints, segmentTimes[k])
    /\ \A k \in 1..Len(segmentTimes) : \A m \in 1..Len(segmentTimes) :
         k < m => segmentTimes[k] < segmentTimes[m]
    /\ \A k \in 1..Len(segmentTimes) : ChunkSpan(segmentTimes, k) >= 30

C13_Witness ==
  Planned /\ silencePoints = <<30, 120, 125, 155>> /\ segmentTimes = <<120, 155>>

RECURSIVE PickPoints(_, _, _)
\* the points at the given positions, from position k on, in list order
PickPoints(points, positions, k) ==
  IF k > Len(points) THEN <<>>
  ELSE (IF k \in positions THEN <<points[k]>> ELSE <<>>)
       \o PickPoints(points, positions, k + 1)

\* the two-pass greedy plan, stated with the cursor after each point
GreedyPlan(points) ==
  LET n == Len(points)
      cursor1[i \in 0..n] ==
        IF i = 0 THEN 0
        ELSE IF points[i] - cursor1[i - 1] >= 120 THEN points[i] ELSE cursor1[i - 1]
      accepted1 == {i \in 1..n : points[i] - cursor1[i - 1] >= 120}
      cursor2[i \in 0..n] ==
        IF i = 0 THEN cursor1[n]
        ELSE IF i \notin accepted1 /\ points[i] - cursor2[i - 1] >= 30
             THEN points[i] ELSE cursor2[i - 1]
      accepted2 == {i \in 1..n : i \notin accepted1 /\ points[i] - cursor2[i - 1] >= 30}
  IN PickPoints(points, accepted1, 1) \o PickPoints(points, accepted2, 1)

GoldenPoints == <<10, 50, 125, 140, 250>>

\* C14: for every ascending list the plan is the two-pass greedy plan: pass 1
\* takes each point at least 120 s past the last accepted split, from 0, and
\* pass 2 each point not yet taken at least 30 s past the last accepted split;
\* for [10, 50, 125, 140, 250] pass 1 takes 125 and the plan is [125, 250].
C14_TwoPassGreedy ==
  Planned =>
    /\ segmentTimes = GreedyPlan(silencePoints)
    /\ silencePoints = GoldenPoints =>
         /\ Includes(Pass1(silencePoints, <<>>, 0).times, 125)
         /\ segmentTimes = <<125, 250>>

C14_Witness == Planned /\ silencePoints = GoldenPoints /\ segmentTimes = <<125, 250>>

\* main() has left its loop
MainFinished == mainPc = "done" /\ credentials

\* the file main() was processing when an operation of its own threw
FailedItself(k) == mainError # "none" /\ k = fileIdx

\* C11: when main() finishes, an output text file has been written for every
\* audio file it discovered, whatever happened while the other files were
\* processed: only a file whose own processing threw may lack its output.
C11_EveryAudioFileWritten ==
  MainFinished => \A k \in 1..Len(audioFiles) : k \in written \/ FailedItself(k)

\* the files whose text has been obtained, or whose transcription has thrown
Decided == {k \in 1..Len(existedAt) : k < fileIdx \/ mainPc \in {"write", "done"}}

\* C12: the transcription service is invoked for a file iff its output file did
\* not exist when the file was processed; for a file whose output existed the
\* existing text is what gets split and written.
C12_TranscribedIffNoOutput ==
  /\ \A k \in Decided : (k \in transcribed) <=> ~existedAt[k]
  /\ (mainPc = "write" /\ existedAt[fileIdx]) =>
       fileText = outputs[OutputStem(audioFiles[fileIdx])]

\* the calls that hold a scratch directory
Active == {a \in Attempts : attempt[a].pc \notin {"mkdtemp", "done"}}

\* chunk files a call has yet to examine or submit
Needed(a) ==
  IF attempt[a].pc = "validate"
  THEN {attempt[a].allChunks[k] : k \in attempt[a].validIdx..Len(attempt[a].allChunks)}
  ELSE IF attempt[a].pc = "transcribing"
       THEN {attempt[a].chunks[k] : k \in attempt[a].pending}
       ELSE {}

\* the text a call returns when no other call runs
AloneText(source) ==
  LET sizes == SourceChunkSizes[source]
      valid == SelectSeq([k \in 1..Len(sizes) |-> k], LAMBDA k : IsValidSize(sizes[k]))
  IN IF Len(valid) = 0
     THEN Trim(<<PartWords[source][1]>>)
     ELSE Trim(JoinTexts([k \in 1..Len(valid) |-> <<PartWords[source][valid[k] + 1]>>],
                         <<"\n">>))

\* C18: two concurrent transcribeLargeFile calls hold different scratch
\* directories; a call lists, examines, deletes and submits only chunk files it
\* produced itself; every chunk file a call still needs is on disk as that call
\* wrote it, whatever the other call has cleaned up; and each call returns the
\* text it returns when it runs alone, without throwing.
C18_AttemptsIsolated ==
  /\ \A a \in Active : \A b \in Active : a # b => attempt[a].dir # attempt[b].dir
  /\ \A t \in touched : t.producer = t.by
  /\ \A a \in Attempts : \A chunk \in Needed(a) :
       /\ <<attempt[a].dir, chunk>> \in DOMAIN disk
       /\ disk[<<attempt[a].dir, chunk>>].by = a
  /\ \A a \in Attempts :
       /\ attempt[a].thrown = "none"
       /\ attempt[a].returned # NoText =>
            attempt[a].returned = AloneText(attempt[a].source)

\* both calls work on the same source at once: one has returned and is about
\* to remove its directory while the other still has a chunk to submit
C18_Witness ==
  /\ attempt[1].pc = "transcribing"
  /\ attempt[1].pending # {}
  /\ attempt[2].pc = "finally"
  /\ attempt[1].source = "x"
  /\ attempt[2].source = "x"
  /\ attempt[2].returned = <<"x1">>
  /\ touched = {[by |-> 1, producer |-> 1], [by |-> 2, producer |-> 2]}
====
